---- MODULE Spec2Model ----
(***************************************************************************)
(* Model of bananas_server/index/github.py: the GitHub-backed index that   *)
(* keeps a local folder equal to a branch of a remote repository.          *)
(*                                                                         *)
(* Paths are sequences of names relative to the index folder; <<>> is the  *)
(* folder itself.  The strings os.walk produces are modelled as sequences  *)
(* of characters so that str.startswith is computed, not assumed.          *)
(***************************************************************************)
EXTENDS Integers, Sequences, FiniteSets, TLC

VARIABLES
    pc,             \* position of the single thread of control
    folder,         \* self._folder (characters of the configured path)
    private_key,    \* _github_private_key
    key_file,       \* self._github_private_key_file: [name, content] or None
    ssh_command,    \* self._ssh_command
    remotes,        \* remotes of the local repository: name -> url
    origin_found,   \* the URL __init__ found under "origin", if any
    dirs,           \* directories that exist below (and including) the folder
    files,          \* files that exist: path -> content
    index,          \* paths tracked by the local repository
    head,           \* checked-out local branch: [branch, tree] or None
    originRef,      \* tree of refs/remotes/origin/<branch>, or None
    remoteTree,     \* tree of the branch head on the remote, or None
    excludes,       \* paths matched by git's ignore rules
    trace,          \* calls made by the reload in progress (or the last one)
    touched,        \* paths the last step passed to os.unlink / os.rmdir
    result,         \* how the last reload ended
    pre,            \* working tree and branch when reload was called, kept
                    \* until the fetch phase is over
    prev            \* the working tree and origin's branch head as the last
                    \* _fetch_latest left them, if it returned; `again` tells
                    \* that the one before returned too, with the same head

vars == <<pc, folder, private_key, key_file, ssh_command, remotes,
          origin_found, dirs, files, index, head, originRef, remoteTree, excludes, trace,
          touched, result, pre, prev>>

\* Optional values: None, or Some(x) holding x
None == <<>>
Some(x) == <<x>>
Val(o) == o[1]

-----------------------------------------------------------------------------
(* Strings *)

Chars ==
    (".git" :> <<".", "g", "i", "t">>) @@
    ("refs" :> <<"r", "e", "f", "s">>) @@
    ("heads" :> <<"h", "e", "a", "d", "s">>) @@
    ("tags" :> <<"t", "a", "g", "s">>) @@
    ("HEAD" :> <<"H", "E", "A", "D">>) @@
    ("main" :> <<"m", "a", "i", "n">>) @@
    ("pkg" :> <<"p", "k", "g">>) @@
    ("a" :> <<"a">>) @@
    ("junk" :> <<"j", "u", "n", "k">>)

\* str.startswith
StartsWith(s, prefix) ==
    /\ Len(s) >= Len(prefix)
    /\ SubSeq(s, 1, Len(prefix)) = prefix

\* os.path.join(top, name), applied along a relative path, as os.walk does
RECURSIVE JoinPath(_, _)
JoinPath(top, path) ==
    IF path = <<>> THEN top
    ELSE JoinPath(top \o <<"/">> \o Chars[Head(path)], Tail(path))

-----------------------------------------------------------------------------
(* Bounds and configuration *)

\* depth of the chain of nested package directories in the working tree
MaxDepth == 2

\* --index-local-folder: the default, and a folder whose name begins ".git"
Folders == { <<"B", "a", "N", "a", "N", "a", "S">>,
             <<".", "g", "i", "t", "h", "u", "b">> }

\* --index-github-url, and the URL of some other repository
_github_url == "github.com/OpenTTD/BaNaNaS"
OtherUrl == "github.com/fork/BaNaNaS"
PrivateKeys == {None, Some("key1")}
TempNames == {"/tmp/tmp1", "/tmp/tmp2"}
Catalogs == {"catalog1", "catalog2"}

\* --index-github-branch
_github_branch == "main"

-----------------------------------------------------------------------------
(* The file system below the folder *)

GitDir == <<".git">>
GitDirs == { <<".git">>, <<".git", "refs">>, <<".git", "refs", "heads">>,
             <<".git", "refs", "tags">> }
GitHeadFile == <<".git", "HEAD">>
GitBranchFile == <<".git", "refs", "heads", "main">>

Chain(n) == [i \in 1..n |-> "pkg"]
WorkDirs == { Chain(n) : n \in 1..MaxDepth }
\* files the remote's tree may hold: one in the top package directory, one
\* in the deepest
TrackedPaths == { Append(Chain(1), "a"), Append(Chain(MaxDepth), "a") }
JunkPaths == { <<"junk">> }
WorkPaths == TrackedPaths \cup JunkPaths

CommitContents == {"c1"}
Trees == UNION { [P -> CommitContents] : P \in SUBSET TrackedPaths }
\* the branch on the remote: absent, or its head's tree
RemoteStates == {None} \cup { Some(t) : t \in Trees }

Parent(p) == SubSeq(p, 1, Len(p) - 1)
IsPrefix(d, p) == Len(d) <= Len(p) /\ SubSeq(p, 1, Len(d)) = d
Ancestors(p) == { SubSeq(p, 1, n) : n \in 0..(Len(p) - 1) }
AncestorsOf(P) == UNION { Ancestors(p) : p \in P }

\* at or below <folder>/.git
InGitDir(p) == IsPrefix(GitDir, p)

\* the working tree: everything in the folder outside .git
WorkTree(ds, fs) ==
    [d |-> { x \in ds : ~InGitDir(x) },
     f |-> [p \in { x \in DOMAIN fs : ~InGitDir(x) } |-> fs[p]]]

SubFolders(ds, d) == { x \in ds : x # <<>> /\ Parent(x) = d }
FilesIn(fs, d) == { p \in DOMAIN fs : Parent(p) = d }
IsEmptyDir(ds, fs, d) == SubFolders(ds, d) = {} /\ FilesIn(fs, d) = {}

Restrict(f, S) == [x \in S |-> f[x]]

-----------------------------------------------------------------------------
(* Index.__init__ *)

\* the override is never set up
SshCommandNever(key, name) == None

\* self._ssh_command
SshCommand(key, name) ==
    IF key # None THEN Some(<<"ssh -i", name>>) ELSE None

\* origin is created when missing, and an existing one is left as it is
EnsureOriginCreateOnly(rs, url) ==
    IF "origin" \notin DOMAIN rs THEN rs @@ ("origin" :> url) ELSE rs

\* "Make sure the origin is set correctly"
EnsureOrigin(rs, url) ==
    LET created == IF "origin" \notin DOMAIN rs
                   THEN rs @@ ("origin" :> url)
                   ELSE rs
    IN  IF created["origin"] # url
        THEN [created EXCEPT !["origin"] = url]
        ELSE created

\* git.Repo(self._folder) raises NoSuchPathError / InvalidGitRepositoryError
NoRepository(ds) == <<>> \notin ds \/ GitDir \notin ds

-----------------------------------------------------------------------------
(* Index._remove_empty_folders *)

\* root.startswith(".git")
SkipRoot(root) == StartsWith(root, Chars[".git"])

\* The folders one bottom-up walk removes.  os.walk lists a directory before
\* it descends into it, so `folders` and `files` of every root are those of
\* the start of the walk.
RemovedFolders(top, ds, fs) ==
    { d \in ds : ~SkipRoot(JoinPath(top, d)) /\ IsEmptyDir(ds, fs, d) }

-----------------------------------------------------------------------------
(* Index._fetch_latest *)

FetchOutcomes == {"ok", "BadName", "GitCommandError"}

\* except Exception: any first failure is retried
FetchNextRetryAny(attempt, outcome) ==
    IF outcome = "ok" THEN "checkout"
    ELSE IF attempt = 1 THEN "fetch2"
    ELSE "raise"

\* except BadName: origin.fetch(); raise
FetchNextReraise(attempt, outcome) ==
    IF attempt = 2 THEN "raise"
    ELSE IF outcome = "ok" THEN "checkout"
    ELSE IF outcome = "BadName" THEN "fetch2"
    ELSE "raise"

\* a failed fetch is swallowed and the refresh goes on
FetchNextSwallow(attempt, outcome) ==
    IF attempt = 1 /\ outcome = "BadName" THEN "fetch2" ELSE "checkout"

\* try: origin.fetch()  except git.exc.BadName: origin.fetch()
FetchNext(attempt, outcome) ==
    IF outcome = "ok" THEN "checkout"
    ELSE IF attempt = 1 /\ outcome = "BadName" THEN "fetch2"
    ELSE "raise"

\* what origin.fetch() leaves in refs/remotes/origin/<branch>: a fetch does
\* not prune a branch the remote no longer has
Fetched(ref, remote) == IF remote = None THEN ref ELSE remote

\* self._git.untracked_files: git status lists neither tracked files, nor
\* ignored files, nor anything inside .git
UntrackedFiles(fs, idx, excl) ==
    { p \in DOMAIN fs : ~InGitDir(p) /\ p \notin idx /\ p \notin excl }

\* git status prints paths in byte order: "junk" < "pkg/a" < "pkg/pkg/a"
Rank(p) == IF p \in JunkPaths THEN 0 ELSE Len(p)
RECURSIVE Sorted(_)
Sorted(P) ==
    IF P = {} THEN <<>>
    ELSE LET first == CHOOSE p \in P : \A q \in P : Rank(p) <= Rank(q)
         IN  <<first>> \o Sorted(P \ {first})

SeqRange(s) == { s[i] : i \in 1..Len(s) }

\* git removes the leading directories a deleted tracked file leaves empty
RECURSIVE RemoveEmptied(_, _, _)
RemoveEmptied(ds, fs, cands) ==
    LET gone == { d \in cands \cap ds : d # <<>> /\ IsEmptyDir(ds, fs, d) }
    IN  IF gone = {} THEN ds ELSE RemoveEmptied(ds \ gone, fs, cands)

\* origin.refs[branch].checkout(force=True, B=branch): files
CheckoutFiles(fs, idx, tree) ==
    LET gone == idx \ DOMAIN tree
        kept == DOMAIN fs \ gone
        all  == kept \cup DOMAIN tree \cup {GitHeadFile, GitBranchFile}
    IN  [p \in all |->
            IF p \in DOMAIN tree THEN tree[p]
            ELSE IF p \in {GitHeadFile, GitBranchFile} THEN "meta"
            ELSE fs[p]]

\* origin.refs[branch].checkout(force=True, B=branch): directories
CheckoutDirs(ds, fs, idx, tree) ==
    LET gone == (idx \ DOMAIN tree) \cap DOMAIN fs
        left == Restrict(fs, DOMAIN fs \ gone)
    IN  RemoveEmptied(ds, left, AncestorsOf(gone))
            \cup AncestorsOf(DOMAIN tree) \cup AncestorsOf({GitBranchFile})

\* self._remove_empty_folders(self._folder), called once
PruneOnce(removed) == FALSE

\* while self._remove_empty_folders(self._folder): pass
KeepPruning(removed) == removed

-----------------------------------------------------------------------------
(* Index.reload *)

\* the base reload runs whether or not the refresh raised
AfterRefreshAlways(raised) == "base"

\* self._fetch_latest(_github_branch); return super().reload(application)
AfterRefresh(raised) == IF raised THEN "ready" ELSE "base"

\* the value reload returns when the base reload returned v
ReloadReturn(v) == v

Event(op, info) == [op |-> op, info |-> info]
NoResult == [kind |-> "none", val |-> "none"]
Returned(v) == [kind |-> "return", val |-> v]
Raised(e) == [kind |-> "raise", val |-> e]
Snapshot(ds, fs, h) == [tree |-> WorkTree(ds, fs), head |-> h]

-----------------------------------------------------------------------------
(* States the folder can be in when the index is constructed *)

LocalContents == CommitContents \cup {"local"}

StartFiles ==
    { f \in UNION { [P -> LocalContents] : P \in SUBSET WorkPaths } :
        \A p \in DOMAIN f \cap JunkPaths : f[p] = "local" }

StartDirs(f) ==
    { D \in SUBSET WorkDirs :
        /\ \A d \in D : Ancestors(d) \subseteq D \cup {<<>>}
        /\ AncestorsOf(DOMAIN f) \subseteq D \cup {<<>>} }

\* the folder does not exist
InitAbsent ==
    /\ dirs = {}
    /\ files = <<>>
    /\ index = {} /\ head = None /\ originRef = None /\ remotes = <<>>

\* the folder exists and is not a repository
InitPlain ==
    /\ \E f \in StartFiles : \E D \in StartDirs(f) :
        /\ files = f
        /\ dirs = D \cup {<<>>}
    /\ index = {} /\ head = None /\ originRef = None /\ remotes = <<>>

\* the folder is a repository, as git init or an earlier run left it
InitRepository ==
    /\ \E f \in StartFiles : \E D \in StartDirs(f) :
       \E t \in RemoteStates :
       \E tags \in SUBSET {<<".git", "refs", "tags">>} :
        /\ head = IF t = None THEN None
                  ELSE Some([branch |-> _github_branch, tree |-> Val(t)])
        /\ originRef = t
        /\ index = IF t = None THEN {} ELSE DOMAIN Val(t)
        /\ files = f @@ (GitHeadFile :> "meta")
                     @@ (IF t = None THEN <<>> ELSE (GitBranchFile :> "meta"))
        /\ dirs = D \cup {<<>>} \cup (GitDirs \ {<<".git", "refs", "tags">>}) \cup tags
    /\ \E rs \in { <<>>, ("origin" :> _github_url), ("origin" :> OtherUrl) } :
        remotes = rs

Init ==
    /\ pc = "uninit"
    /\ folder \in Folders
    /\ private_key \in PrivateKeys
    /\ remoteTree \in RemoteStates
    /\ excludes \in SUBSET JunkPaths
    /\ key_file = None
    /\ ssh_command = None
    /\ origin_found = None
    /\ trace = <<>>
    /\ touched = {}
    /\ result = NoResult
    /\ pre = None
    /\ prev = None
    /\ (InitAbsent \/ InitPlain \/ InitRepository)

-----------------------------------------------------------------------------
(* Actions *)

config == <<folder, private_key, excludes, origin_found>>
repo == <<dirs, files, index, head>>

\* Index.__init__
Construct ==
    /\ pc = "uninit"
    /\ \E name \in TempNames :
        /\ key_file' = IF private_key # None
                       THEN Some([name |-> name, content |-> Val(private_key)])
                       ELSE None
        /\ ssh_command' = SshCommand(private_key, name)
    /\ IF NoRepository(dirs)
       THEN \* git.Repo.init(self._folder)
            /\ dirs' = dirs \cup {<<>>} \cup GitDirs
            /\ files' = files @@ (GitHeadFile :> "meta")
            /\ remotes' = EnsureOrigin(<<>>, _github_url)
            /\ origin_found' = None
            /\ UNCHANGED <<index, head, originRef>>
       ELSE /\ remotes' = EnsureOrigin(remotes, _github_url)
            /\ origin_found' = IF "origin" \in DOMAIN remotes
                               THEN Some(remotes["origin"]) ELSE None
            /\ UNCHANGED <<dirs, files, index, head, originRef>>
    /\ pc' = "ready"
    /\ UNCHANGED <<folder, private_key, excludes, remoteTree, trace, touched,
                   result, pre, prev>>

\* reload(application) is called
Reload ==
    /\ pc = "ready"
    /\ pc' = "fetch1"
    /\ trace' = <<>>
    /\ touched' = {}
    /\ result' = NoResult
    /\ pre' = Some(Snapshot(dirs, files, head))
    /\ UNCHANGED <<config, key_file, ssh_command, remotes, repo, originRef,
                   remoteTree, prev>>

\* how a raise inside _fetch_latest leaves reload
RefreshRaises(e) ==
    /\ pc' = AfterRefresh(TRUE)
    /\ result' = Raised(e)
    /\ prev' = None

\* origin.fetch(), first attempt (attempt = 1) and retry (attempt = 2)
Fetch(attempt) ==
    /\ pc = IF attempt = 1 THEN "fetch1" ELSE "fetch2"
    /\ \E outcome \in FetchOutcomes :
        /\ trace' = Append(trace, Event("fetch",
                        [env |-> ssh_command,
                         url |-> IF "origin" \in DOMAIN remotes
                                 THEN Some(remotes["origin"]) ELSE None,
                         outcome |-> outcome]))
        /\ IF outcome = "ok"
           THEN originRef' = Fetched(originRef, remoteTree)
           ELSE originRef' \in {originRef, Fetched(originRef, remoteTree)}
        /\ IF FetchNext(attempt, outcome) = "raise"
           THEN RefreshRaises(outcome)
           ELSE /\ pc' = FetchNext(attempt, outcome)
                /\ UNCHANGED <<result, prev>>
    /\ UNCHANGED <<config, key_file, ssh_command, remotes, repo, remoteTree,
                   touched, pre>>

Fetch1 == Fetch(1)
Fetch2 == Fetch(2)

\* origin.refs[branch].checkout(force=True, B=branch)
Checkout ==
    /\ pc = "checkout"
    /\ IF originRef = None
       THEN \* origin has no such ref: origin.refs[branch] raises IndexError
            /\ trace' = Append(trace, Event("checkout", "IndexError"))
            /\ RefreshRaises("IndexError")
            /\ UNCHANGED repo
       ELSE /\ trace' = Append(trace, Event("checkout", "ok"))
            /\ files' = CheckoutFiles(files, index, Val(originRef))
            /\ dirs' = CheckoutDirs(dirs, files, index, Val(originRef))
            /\ index' = DOMAIN Val(originRef)
            /\ head' = Some([branch |-> _github_branch, tree |-> Val(originRef)])
            /\ pc' = "unlink"
            /\ UNCHANGED <<result, prev>>
    /\ pre' = None
    /\ UNCHANGED <<config, key_file, ssh_command, remotes, originRef,
                   remoteTree, touched>>

\* for file_name in self._git.untracked_files: os.unlink(...)
\* the k-th unlink may raise OSError
Unlink ==
    /\ pc = "unlink"
    /\ LET todo == Sorted(UntrackedFiles(files, index, excludes))
       IN \E k \in 0..Len(todo) :
            LET done == SeqRange(SubSeq(todo, 1, k))
            IN  /\ files' = Restrict(files, DOMAIN files \ done)
                /\ touched' = IF k < Len(todo) THEN done \cup {todo[k + 1]}
                               ELSE done
                /\ IF k < Len(todo)
                   THEN /\ trace' = Append(trace, Event("unlink", "OSError"))
                        /\ RefreshRaises("OSError")
                   ELSE /\ trace' = Append(trace, Event("unlink", "ok"))
                        /\ pc' = "prune"
                        /\ UNCHANGED <<result, prev>>
    /\ UNCHANGED <<config, key_file, ssh_command, remotes, dirs, index, head,
                   originRef, remoteTree, pre>>

\* one call of self._remove_empty_folders(self._folder) by the while loop
PrunePass ==
    /\ pc = "prune"
    /\ LET gone == RemovedFolders(folder, dirs, files)
       IN  /\ dirs' = dirs \ gone
           /\ touched' = gone
           /\ trace' = Append(trace, Event("prune", gone # {}))
           /\ IF KeepPruning(gone # {})
              THEN UNCHANGED <<pc, prev>>
              ELSE /\ pc' = AfterRefresh(FALSE)
                   /\ prev' = Some([tree |-> WorkTree(dirs', files),
                                    ref |-> originRef,
                                    again |-> /\ prev # None
                                              /\ Val(prev).ref = originRef])
    /\ UNCHANGED <<config, key_file, ssh_command, remotes, files, index, head,
                   originRef, remoteTree, result, pre>>

\* super().reload(application)
BaseReload ==
    /\ pc = "base"
    /\ \/ \E v \in Catalogs :
            /\ trace' = Append(trace, Event("base", v))
            /\ result' = Returned(ReloadReturn(v))
       \/ /\ trace' = Append(trace, Event("base", "Exception"))
          /\ result' = Raised("Exception")
    /\ pc' = "ready"
    /\ UNCHANGED <<config, key_file, ssh_command, remotes, repo, originRef,
                   remoteTree, touched, pre, prev>>

\* somebody pushes to the branch on GitHub, or deletes it; this program
\* sees the remote only when it fetches
RemotePush ==
    /\ pc \in {"ready", "fetch2"}
    /\ remoteTree' \in RemoteStates \ {remoteTree}
    /\ UNCHANGED <<pc, config, key_file, ssh_command, remotes, repo, originRef,
                   trace, touched, result, pre, prev>>

Next ==
    \/ Construct
    \/ Reload
    \/ Fetch1
    \/ Fetch2
    \/ Checkout
    \/ Unlink
    \/ PrunePass
    \/ BaseReload
    \/ RemotePush

Spec == Init /\ [][Next]_vars

\* the thread of control does not stop inside a call
FairSpec == Spec /\ WF_vars(PrunePass)

-----------------------------------------------------------------------------
(* Reading the trace of a reload *)

Last(s) == s[Len(s)]
Positions(op) == { i \in 1..Len(trace) : trace[i].op = op }
FetchOutcome(i) == trace[i].info.outcome

\* the order of the calls in reload
Stage(op) ==
    CASE op = "fetch" -> 1
      [] op = "checkout" -> 2
      [] op = "unlink" -> 3
      [] op = "prune" -> 4
      [] op = "base" -> 5

InOrder ==
    /\ \A i, j \in 1..Len(trace) :
            i < j => Stage(trace[i].op) <= Stage(trace[j].op)
    /\ \A op \in {"checkout", "unlink", "base"} : Cardinality(Positions(op)) <= 1

\* _fetch_latest returned: the last pass of the pruning loop removed nothing
RefreshReturned ==
    \E i \in Positions("prune") :
        /\ trace[i].info = FALSE
        /\ \A j \in Positions("prune") : j <= i

\* the fetch phase ended in an error at position i of the trace
FetchFailedAt(i) ==
    /\ trace[i].op = "fetch"
    /\ FetchOutcome(i) # "ok"
    /\ i = 2 \/ FetchOutcome(i) # "BadName"

ReloadOver == pc = "ready" /\ result # NoResult

EmptyFolders(ds, fs) == { d \in ds : ~InGitDir(d) /\ IsEmptyDir(ds, fs, d) }
StrayFiles(fs, tree) == { p \in DOMAIN fs : ~InGitDir(p) /\ p \notin DOMAIN tree }

-----------------------------------------------------------------------------
(* Claims *)

\* C1: whenever _fetch_latest returns without raising, the working tree holds
\* no file that is absent from the tree of origin's branch head and no empty
\* directory outside .git.
C1_CleanAfterRefresh ==
    pc = "base" =>
        /\ StrayFiles(files, Val(originRef)) = {}
        /\ EmptyFolders(dirs, files) = {}

\* C2: no os.unlink or os.rmdir call of a refresh targets a path at or below
\* <folder>/.git.
C2_GitDirUntouched == \A p \in touched : ~InGitDir(p)

\* C3: the fetch is attempted at most twice; a second attempt is made only
\* after a first attempt that failed with BadName; any other first failure,
\* and any failure of the second attempt, is raised without a further attempt.
C3_RetryOnce ==
    /\ Positions("fetch") \subseteq {1, 2}
    /\ 2 \in Positions("fetch") => FetchOutcome(1) = "BadName"
    /\ \A i \in Positions("fetch") :
            FetchFailedAt(i) =>
                /\ Len(trace) = i
                /\ pc = "ready"
                /\ result = Raised(FetchOutcome(i))

C3_Witness ==
    /\ Len(trace) = 2
    /\ FetchFailedAt(2)
    /\ FetchOutcome(2) = "BadName"
    /\ ReloadOver

RetrySucceeded ==
    /\ Len(trace) >= 2
    /\ trace[1].op = "fetch" /\ FetchOutcome(1) = "BadName"
    /\ trace[2].op = "fetch" /\ FetchOutcome(2) = "ok"

CleanupDone ==
    /\ \E i \in Positions("checkout") : trace[i].info = "ok"
    /\ \E i \in Positions("unlink") : trace[i].info = "ok"
    /\ RefreshReturned

C5_OriginIsConfiguredUrl ==
    /\ pc # "uninit" =>
            "origin" \in DOMAIN remotes /\ remotes["origin"] = _github_url
    /\ \A i \in Positions("fetch") : trace[i].info.url = Some(_github_url)

\* construction found origin at another URL, and two fetches were made
C5_Witness ==
    /\ origin_found = Some(OtherUrl)
    /\ Positions("fetch") = {1, 2}

\* C6: when _fetch_latest returns twice in succession with the same head of
\* origin's branch, the second call leaves the working tree as the first
\* left it.
C6_Idempotent ==
    [][ (/\ pc = "prune" /\ pc' = "base"
         /\ prev # None
         /\ Val(prev).ref = originRef)
        => WorkTree(dirs', files') = Val(prev).tree ]_vars

C6_Witness ==
    /\ pc = "base"
    /\ prev # None
    /\ Val(prev).again
    /\ Val(prev).tree.d # {}

\* C7: the base reload runs only after the refresh has returned, never after
\* the refresh raised; reload returns what the base reload returned, and an
\* error of either phase reaches the caller.
C7_RefreshThenBaseReload ==
    /\ pc = "base" => RefreshReturned /\ Positions("base") = {}
    /\ \A i \in Positions("base") :
            /\ i = Len(trace)
            /\ InOrder
            /\ CleanupDone
            /\ \A j \in Positions("fetch") : ~FetchFailedAt(j)
            /\ ReloadOver
            /\ result = IF trace[i].info = "Exception"
                        THEN Raised("Exception")
                        ELSE Returned(trace[i].info)
    /\ (ReloadOver /\ Positions("base") = {}) =>
            /\ result.kind = "raise"
            /\ ~RefreshReturned
    /\ head # None => Val(head).branch = _github_branch

C7_Witness ==
    /\ ReloadOver
    /\ Positions("base") # {}
    /\ result = Returned("catalog2")

\* C8 as stated: the pruning loop stops only after a pass that removed
\* nothing, and then no empty directory, nested or not, is left outside .git.
C8_PruneUntilNothingEmpty ==
    pc = "base" =>
        /\ Last(trace).op = "prune"
        /\ Last(trace).info = FALSE
        /\ EmptyFolders(dirs, files) = {}

\* C8, termination: every pass that lets the loop go on removes a directory
C8_PassesShrinkTree ==
    [][ (pc = "prune" /\ pc' = "prune")
        => dirs' \subseteq dirs /\ dirs' # dirs ]_vars

\* C8, termination: the pruning loop is left
C8_PruneTerminates == (pc = "prune") ~> (pc # "prune")

\* C9: a fetch attempt runs under GIT_SSH_COMMAND if and only if a private
\* key was configured, and then under the command that names the temporary
\* file the key was written to.
C9_SshCommandIffPrivateKey ==
    /\ pc # "uninit" =>
            /\ private_key = None => key_file = None
            /\ private_key # None =>
                    /\ key_file # None
                    /\ Val(key_file).content = Val(private_key)
    /\ \A i \in Positions("fetch") :
            trace[i].info.env =
                IF private_key = None THEN None
                ELSE Some(<<"ssh -i", Val(key_file).name>>)

C9_Witness ==
    /\ private_key # None
    /\ Positions("fetch") = {1, 2}
    /\ trace[2].info.env = Some(<<"ssh -i", "/tmp/tmp2">>)

\* C10: when the fetch phase ends in an error, nothing is checked out,
\* unlinked or removed: working tree and checked-out branch are as they were
\* when reload was called, and the base reload is not run.
C10_FailedFetchChangesNothing ==
    \A i \in Positions("fetch") :
        FetchFailedAt(i) =>
            /\ Len(trace) = i
            /\ pc = "ready"
            /\ result.kind = "raise"
            /\ pre = Some(Snapshot(dirs, files, head))

C10_Witness ==
    /\ ReloadOver
    /\ Len(trace) = 2
    /\ FetchFailedAt(2)
    /\ EmptyFolders(dirs, files) # {}
    /\ StrayFiles(files, <<>>) # {}

====
